---- MODULE Spec2Model ----
(***************************************************************************)
(* DexLiquidityAgent (src/DEX_AGENT.py): the ReAct tool-calling loop of    *)
(* DexLiquidityAgent.run, the tool registry of __init__ and the three      *)
(* tools get_tvl, get_volume and get_apy.  The model gateway               *)
(* (client.chat.completions.create) and the subgraph endpoint              *)
(* (requests.post) are the environment: each answers nominally, or         *)
(* departs from the nominal answer, at most MaxDeviations times per run    *)
(* (per session under SpecMain).                                           *)
(*                                                                         *)
(* Spec      one call of DexLiquidityAgent.run                             *)
(* SpecMain  main: the prompt loop that starts one run per query           *)
(* SpecTools one call of a tool on given arguments and endpoint answers    *)
(***************************************************************************)
EXTENDS Integers, Sequences, FiniteSets, TLC

\* self.max_iterations, set by __init__
max_iterations == 10

\* Bound: how many times the environment (model gateway, subgraph endpoint)
\* departs from its nominal answer during one run.
MaxDeviations == 1

\* Bound: the largest number of tool invocation requests in one assistant
\* message.
MaxToolCalls == 2

\* Python's None
None == "None"

----------------------------------------------------------------------------
(* Values of the JSON argument payloads.  A value keeps its JSON type: the  *)
(* tools call str methods on pool_address and compare period with strings. *)

Str(s) == [type |-> "str", v |-> s]

Num(s) == [type |-> "number", v |-> s]

PoolA == "0xA"

\* The raw text of tool_call.function.arguments, as the model wrote it:
\* text that is no JSON at all, JSON that is no object, or a JSON object.
Malformed == [syntax |-> "malformed", obj |-> <<>>]

NonObject == [syntax |-> "nonobject", obj |-> <<>>]

Object(d) == [syntax |-> "object", obj |-> d]

EmptyDict == [k \in {} |-> Str("")]

ArgumentTexts ==
    { Malformed,
      NonObject,
      Object(EmptyDict),
      Object([pool_address |-> Str(PoolA)]),
      Object([pool_address |-> Num("42")]),
      Object([pool_address |-> Str(PoolA), period |-> Str("7d")]),
      Object([pool_address |-> Str(PoolA), period |-> Str("1y")]),
      Object([pool_address |-> Str(PoolA), foo |-> Str("x")]) }

\* An outcome of evaluating a Python expression: a value, or an exception.
Return(v) == [raised |-> FALSE, exc |-> "", value |-> v]

Raise(e) == [raised |-> TRUE, exc |-> e, value |-> <<>>]

\* json.loads(tool_call.function.arguments)
json_loads(text) ==
    IF text.syntax = "malformed" THEN Raise("JSONDecodeError")
    ELSE Return([mapping |-> text.syntax = "object", obj |-> text.obj])

\* json.dumps(function_response): the result as JSON text
json_dumps(result) == [json |-> result]

----------------------------------------------------------------------------
(* The subgraph endpoint: what requests.post(...) and response.json() give *)

NoPool == [found |-> FALSE, id |-> "", symbol0 |-> "", symbol1 |-> "",
           totalValueLockedUSD |-> 0, feeTier |-> 0]

PoolData(tvl) == [found |-> TRUE, id |-> PoolA, symbol0 |-> "USDC", symbol1 |-> "WETH",
                  totalValueLockedUSD |-> tvl, feeTier |-> 500]

DayData(volume, fees) == [volumeUSD |-> volume, feesUSD |-> fees]

\* kind "http_error": requests.post or raise_for_status raises;
\* kind "graphql_errors": the body carries "errors"; kind "data": a data body.
Upstream(kind, pool, days) == [kind |-> kind, pool |-> pool, poolDayDatas |-> days]

NominalUpstream == Upstream("data", PoolData(1000), <<DayData(100, 10)>>)

Upstreams ==
    { NominalUpstream,
      Upstream("http_error", NoPool, <<>>),
      Upstream("graphql_errors", NoPool, <<>>),
      Upstream("data", NoPool, <<>>),
      Upstream("bad_body", NoPool, <<>>),
      Upstream("data", PoolData(0), <<DayData(100, 10)>>),
      Upstream("data", PoolData(1), <<DayData(100, 10)>>) }

----------------------------------------------------------------------------
(* The tools.  A float is kept as the exact fraction num/den.              *)

Frac(n, d) == [num |-> n, den |-> d]

\* "error" in result
IsError(result) == "error" \in DOMAIN result

RECURSIVE SumFieldButLast(_, _)
\* Mutant of SumField: the last record of the list is left out of the sum
SumFieldButLast(days, field) ==
    IF Len(days) <= 1 THEN 0
    ELSE (IF field = "volumeUSD" THEN Head(days).volumeUSD ELSE Head(days).feesUSD)
         + SumFieldButLast(Tail(days), field)

RECURSIVE SumField(_, _)
\* sum(float(day[field]) for day in pool_day_datas)
SumField(days, field) ==
    IF days = <<>> THEN 0
    ELSE (IF field = "volumeUSD" THEN Head(days).volumeUSD ELSE Head(days).feesUSD)
         + SumField(Tail(days), field)

\* Mutant of get_tvl: the request is made outside the try block, so a failed
\* request raises instead of giving an error result
get_tvl_without_try(pool_address, up) ==
    IF pool_address.type # "str" THEN Raise("AttributeError")
    ELSE IF up.kind = "http_error" THEN Raise("RequestException")
    ELSE IF up.kind = "bad_body" THEN Raise("JSONDecodeError")
    ELSE IF up.kind = "graphql_errors" THEN Return([error |-> "GraphQL errors"])
    ELSE IF ~up.pool.found THEN Return([error |-> "Pool not found"])
    ELSE Return([pool_address |-> up.pool.id,
                 pair |-> <<up.pool.symbol0, up.pool.symbol1>>,
                 tvl_usd |-> up.pool.totalValueLockedUSD,
                 fee_tier |-> Frac(up.pool.feeTier, 10000),
                 token0 |-> up.pool.symbol0,
                 token1 |-> up.pool.symbol1])

\* get_tvl(pool_address); up is the endpoint's answer to its one request
get_tvl(pool_address, up) ==
    IF pool_address.type # "str" THEN Raise("AttributeError")
    ELSE IF up.kind \in {"http_error", "bad_body"}
        THEN Return([error |-> "Failed to fetch TVL"])
    ELSE IF up.kind = "graphql_errors" THEN Return([error |-> "GraphQL errors"])
    ELSE IF ~up.pool.found THEN Return([error |-> "Pool not found"])
    ELSE Return([pool_address |-> up.pool.id,
                 pair |-> <<up.pool.symbol0, up.pool.symbol1>>,
                 tvl_usd |-> up.pool.totalValueLockedUSD,
                 fee_tier |-> Frac(up.pool.feeTier, 10000),
                 token0 |-> up.pool.symbol0,
                 token1 |-> up.pool.symbol1])

\* Mutant of PeriodDays: a period other than "7d" and "30d" is taken as one day
PeriodDaysDefaultsToOneDay(period) ==
    IF period.type # "str" THEN 1
    ELSE CASE period.v = "7d" -> 7
           [] period.v = "30d" -> 30
           [] OTHER -> 1

\* The days of a period of get_volume; 0 stands for the else branch
PeriodDays(period) ==
    IF period.type # "str" THEN 0
    ELSE CASE period.v = "24h" -> 1
           [] period.v = "7d" -> 7
           [] period.v = "30d" -> 30
           [] OTHER -> 0

\* get_volume(pool_address, period); up is the endpoint's answer
get_volume(pool_address, period, up) ==
    LET days == PeriodDays(period)
        total_volume_usd == SumField(up.poolDayDatas, "volumeUSD")
        total_fees_usd == SumField(up.poolDayDatas, "feesUSD")
    IN  IF days = 0 THEN Return([error |-> "Invalid period"])
        ELSE IF pool_address.type # "str" THEN Raise("AttributeError")
        ELSE IF up.kind \in {"http_error", "bad_body"}
            THEN Return([error |-> "Failed to fetch volume"])
        ELSE IF up.kind = "graphql_errors" THEN Return([error |-> "GraphQL errors"])
        ELSE IF ~up.pool.found THEN Return([error |-> "Pool not found"])
        ELSE Return([pool_address |-> up.pool.id,
                     pair |-> <<up.pool.symbol0, up.pool.symbol1>>,
                     period |-> period.v,
                     total_volume_usd |-> total_volume_usd,
                     average_daily_volume_usd |-> Frac(total_volume_usd, days),
                     total_fees_usd |-> total_fees_usd,
                     average_daily_fees_usd |-> Frac(total_fees_usd, days),
                     data_points |-> Len(up.poolDayDatas)])

\* (1 + daily_rate) ** 365 with daily_rate = fees / tvl_usd raises
\* OverflowError once the power leaves the float range (daily_rate > 5.9911)
PowOverflows(fees, tvl_usd) == 10000 * fees.num > 59911 * fees.den * tvl_usd

\* ((1 + daily_rate) ** 365 - 1) * 100, kept as the rate it compounds
Apy(fees, tvl_usd) == Frac(fees.num, fees.den * tvl_usd)

\* Mutant of TvlZeroOrNegative: if tvl_usd < 0
TvlNegative(tvl_usd) == tvl_usd < 0

\* if tvl_usd <= 0
TvlZeroOrNegative(tvl_usd) == tvl_usd <= 0

\* get_apy(pool_address); ups are the endpoint's answers to the requests of
\* get_tvl and of get_volume for 24h, 7d and 30d, in that order
get_apy(pool_address, ups) ==
    LET tvl == get_tvl(pool_address, ups[1])
        tvl_usd == tvl.value.tvl_usd
        volume_data == get_volume(pool_address, Str("24h"), ups[2])
        daily_fees == Frac(volume_data.value.total_fees_usd, 1)
        volume_7d == get_volume(pool_address, Str("7d"), ups[3])
        volume_30d == get_volume(pool_address, Str("30d"), ups[4])
        fees_7d == volume_7d.value.average_daily_fees_usd
        fees_30d == volume_30d.value.average_daily_fees_usd
    IN  IF tvl.raised THEN tvl
        ELSE IF IsError(tvl.value) THEN tvl
        ELSE IF TvlZeroOrNegative(tvl_usd)
            THEN Return([error |-> "TVL is zero or negative"])
        ELSE IF IsError(volume_data.value) THEN volume_data
        ELSE IF tvl_usd = 0 THEN Raise("ZeroDivisionError")
        ELSE IF PowOverflows(daily_fees, tvl_usd) THEN Raise("OverflowError")
        ELSE IF ~IsError(volume_7d.value) /\ PowOverflows(fees_7d, tvl_usd)
            THEN Raise("OverflowError")
        ELSE IF ~IsError(volume_30d.value) /\ PowOverflows(fees_30d, tvl_usd)
            THEN Raise("OverflowError")
        ELSE Return([pool_address |-> pool_address.v,
                     pair |-> tvl.value.pair,
                     fee_tier |-> tvl.value.fee_tier,
                     tvl_usd |-> tvl_usd,
                     apy_24h |-> Apy(daily_fees, tvl_usd),
                     apy_7d |-> IF IsError(volume_7d.value) THEN Frac(0, 1)
                                ELSE Apy(fees_7d, tvl_usd),
                     apy_30d |-> IF IsError(volume_30d.value) THEN Frac(0, 1)
                                 ELSE Apy(fees_30d, tvl_usd),
                     daily_fees_usd |-> daily_fees.num,
                     daily_rate |-> Frac(daily_fees.num, tvl_usd)])

\* The requests.post calls of get_tvl(pool_address)
tvl_requests(pool_address) == IF pool_address.type # "str" THEN 0 ELSE 1

\* The requests.post calls of get_volume(pool_address, period)
volume_requests(pool_address, period) ==
    IF PeriodDays(period) = 0 THEN 0
    ELSE IF pool_address.type # "str" THEN 0
    ELSE 1

\* The requests.post calls of get_apy(pool_address), its sub-calls included
apy_requests(pool_address, ups) ==
    LET tvl == get_tvl(pool_address, ups[1])
        volume_data == get_volume(pool_address, Str("24h"), ups[2])
        daily_fees == Frac(volume_data.value.total_fees_usd, 1)
    IN  IF tvl.raised THEN 0
        ELSE IF IsError(tvl.value) \/ TvlZeroOrNegative(tvl.value.tvl_usd) THEN 1
        ELSE IF IsError(volume_data.value) THEN 2
        ELSE IF tvl.value.tvl_usd = 0 \/ PowOverflows(daily_fees, tvl.value.tvl_usd)
            THEN 2
        ELSE 4

----------------------------------------------------------------------------
(* The registry of __init__ and the call of function_to_call               *)

\* self.available_functions
available_functions == {"get_tvl", "get_volume", "get_apy"}

\* The parameters of a tool's def line
Parameters(name) ==
    IF name = "get_volume" THEN {"pool_address", "period"} ELSE {"pool_address"}

\* The parameters without a default value
Required(name) == {"pool_address"}

\* function_to_call called with function_args as keywords: Python binds them to the
\* parameters (TypeError when they do not fit), then runs the body
CallFunction(name, function_args, ups) ==
    IF ~function_args.mapping THEN Raise("TypeError")
    ELSE IF ~(DOMAIN function_args.obj \subseteq Parameters(name)) THEN Raise("TypeError")
    ELSE IF ~(Required(name) \subseteq DOMAIN function_args.obj) THEN Raise("TypeError")
    ELSE CASE name = "get_tvl" -> get_tvl(function_args.obj.pool_address, ups[1])
           [] name = "get_volume" ->
                get_volume(function_args.obj.pool_address,
                           IF "period" \in DOMAIN function_args.obj
                           THEN function_args.obj.period ELSE Str("24h"),
                           ups[1])
           [] name = "get_apy" -> get_apy(function_args.obj.pool_address, ups)

\* The requests.post calls made by that call
RequestsSent(name, function_args, ups) ==
    IF CallFunction(name, function_args, ups).exc = "TypeError" THEN 0
    ELSE CASE name = "get_tvl" -> tvl_requests(function_args.obj.pool_address)
           [] name = "get_volume" ->
                volume_requests(function_args.obj.pool_address,
                                IF "period" \in DOMAIN function_args.obj
                                THEN function_args.obj.period ELSE Str("24h"))
           [] name = "get_apy" -> apy_requests(function_args.obj.pool_address, ups)

----------------------------------------------------------------------------
(* The model gateway: what client.chat.completions.create(...) returns     *)

ToolNames == available_functions \cup {"get_price"}

Ids == 1..MaxToolCalls

\* One entry of response_message.tool_calls: id, function.name,
\* function.arguments
ToolCall(id, name, arguments) == [id |-> id, name |-> name, arguments |-> arguments]

ToolCalls == {ToolCall(id, name, a) : id \in Ids, name \in ToolNames, a \in ArgumentTexts}

Contents == {None, "answer A", "answer B"}

Response(content, tool_calls) == [content |-> content, tool_calls |-> tool_calls]

NoResponse == Response(None, <<>>)

\* The nominal answer of the model: one trivial, well-formed tool call
NominalCall(i) == ToolCall(i, "get_tvl", Object([pool_address |-> Str(PoolA)]))

NominalResponse == Response(None, <<NominalCall(1)>>)

\* The tool_calls lists of k calls that depart from the nominal calls at
\* the positions D
CallLists(k, D) ==
    { [i \in 1..k |-> IF i \in D THEN f[i] ELSE NominalCall(i)] :
        f \in {g \in [D -> ToolCalls] : \A i \in D : g[i] # NominalCall(i)} }

\* The responses that depart from NominalResponse in exactly n respects: a
\* number of calls other than one, each call that is not the nominal call,
\* and text next to the calls
Responses(n) ==
    {Response(c, <<>>) : c \in {x \in Contents : n = 1}}
    \cup
    UNION { { Response(c, calls) : calls \in CallLists(k, D) } :
            <<k, D, c>> \in { t \in (1..MaxToolCalls) \X (SUBSET Ids) \X Contents :
                               /\ t[2] \subseteq 1..t[1]
                               /\ (IF t[1] = 1 THEN 0 ELSE 1) + Cardinality(t[2])
                                    + (IF t[3] = None THEN 0 ELSE 1) = n } }

\* The endpoint's answers to the requests of one tool call that depart from
\* the nominal answer n times; a tool other than get_apy sends one request
UpstreamLists(name, n) ==
    UNION { { [i \in 1..4 |-> IF i \in P THEN f[i] ELSE NominalUpstream] :
                f \in [P -> Upstreams \ {NominalUpstream}] } :
            P \in { Q \in SUBSET (IF name = "get_apy" THEN 1..4 ELSE {1}) :
                      Cardinality(Q) = n } }

----------------------------------------------------------------------------
(* DexLiquidityAgent.run                                                   *)

VARIABLES
    pc,                 \* the statement run is at
    iteration,          \* iteration
    messages,           \* messages
    response_message,   \* response_message
    tool_index,         \* the position of tool_call in response_message.tool_calls
    function_args,      \* function_args
    function_to_call,   \* function_to_call, by name
    function_response,  \* function_response
    returned,           \* the value run returned
    exception,          \* the exception that left run
    raised_at,          \* the statement that raised it
    in_progress,        \* the positions of the tool calls being executed
    model_calls,        \* the calls of client.chat.completions.create so far
    deviations,         \* the environment's departures from nominal so far
    endpoint,           \* the endpoint's answers to the requests of the last tool call
    posts,              \* the requests.post calls so far
    user_input          \* user_input of main: the stripped line read last

vars == <<pc, iteration, messages, response_message, tool_index, function_args,
          function_to_call, function_response, returned, exception, raised_at,
          in_progress, model_calls, deviations, endpoint, posts, user_input>>

MaxIterationsMessage == "Maximum iterations reached. The agent couldn't complete the task."

NotReturned == "<running>"

SystemMessage == [role |-> "system", content |-> "You are a DeFi analyst AI assistant"]

UserInputs == {"What's the TVL for pool 0xA?"}

UserMessage(text) == [role |-> "user", content |-> text]

\* Mutant of model_dump: the dict keeps role and content and drops the
\* requested tool invocations
model_dump_without_tool_calls(message) ==
    [role |-> "assistant", content |-> message.content, tool_calls |-> <<>>]

\* response_message.model_dump(): the message as a dict
model_dump(message) ==
    [role |-> "assistant", content |-> message.content, tool_calls |-> message.tool_calls]

\* Mutant of ToolMessage: the message is given the role "function"
ToolMessageAsFunction(tool_call, response) ==
    [role |-> "function", tool_call_id |-> tool_call.id, content |-> json_dumps(response)]

\* The tool message run builds for tool_call and its function_response
ToolMessage(tool_call, response) ==
    [role |-> "tool", tool_call_id |-> tool_call.id, content |-> json_dumps(response)]

\* Mutant of AppendMessage: messages.insert(0, message)
InsertMessageFirst(msgs, message) == <<message>> \o msgs

\* messages.append(message)
AppendMessage(msgs, message) == Append(msgs, message)

\* Mutant of LoopCondition: while iteration + 1 < self.max_iterations
LoopConditionStopsEarly(i) == i + 1 < max_iterations

\* Mutant of LoopCondition: while iteration <= self.max_iterations
LoopConditionOffByOne(i) == i <= max_iterations

\* while iteration < self.max_iterations
LoopCondition(i) == i < max_iterations

\* Mutant of HasToolCalls: if response_message.tool_calls is not None, which
\* an empty list passes
HasToolCallsIsNotNone(message) == Len(message.tool_calls) >= 0

\* if response_message.tool_calls
HasToolCalls(message) == Len(message.tool_calls) > 0

\* The tool_call the for loop is at
tool_call == response_message.tool_calls[tool_index]

NoArgs == [mapping |-> FALSE, obj |-> EmptyDict]

NoResult == [error |-> ""]

NominalEndpoint == [i \in 1..4 |-> NominalUpstream]

Init ==
    /\ pc = "while"
    /\ iteration = 0
    /\ user_input \in UserInputs
    /\ messages = <<SystemMessage, UserMessage(user_input)>>
    /\ response_message = NoResponse
    /\ tool_index = 0
    /\ function_args = NoArgs
    /\ function_to_call = None
    /\ function_response = NoResult
    /\ returned = NotReturned
    /\ exception = None
    /\ raised_at = None
    /\ in_progress = {}
    /\ model_calls = 0
    /\ deviations = 0
    /\ endpoint = NominalEndpoint
    /\ posts = 0

\* An exception leaves run
Raises(e, at) ==
    /\ pc' = "raised"
    /\ exception' = e
    /\ raised_at' = at

\* while iteration < self.max_iterations: iteration += 1
WhileEnter ==
    /\ pc = "while"
    /\ UNCHANGED <<endpoint, posts, user_input>>
    /\ LoopCondition(iteration)
    /\ iteration' = iteration + 1
    /\ pc' = "create"
    /\ UNCHANGED <<messages, response_message, tool_index, function_args,
                   function_to_call, function_response, returned, exception,
                   raised_at, in_progress, model_calls, deviations>>

\* the loop ends: return the maximum-iterations message
WhileExit ==
    /\ pc = "while"
    /\ UNCHANGED <<endpoint, posts, user_input>>
    /\ ~LoopCondition(iteration)
    /\ returned' = MaxIterationsMessage
    /\ pc' = "aborted"
    /\ UNCHANGED <<iteration, messages, response_message, tool_index, function_args,
                   function_to_call, function_response, exception, raised_at,
                   in_progress, model_calls, deviations>>

\* response = client.chat.completions.create(...) returns
CreateReturns ==
    /\ pc = "create"
    /\ UNCHANGED <<endpoint, posts, user_input>>
    /\ \E n \in 0..(MaxDeviations - deviations) :
         \E response \in (IF n = 0 THEN {NominalResponse} ELSE Responses(n)) :
            /\ response_message' = response
            /\ deviations' = deviations + n
    /\ model_calls' = model_calls + 1
    /\ pc' = "append_response"
    /\ UNCHANGED <<iteration, messages, tool_index, function_args, function_to_call,
                   function_response, returned, exception, raised_at, in_progress>>

\* client.chat.completions.create(...) raises (the gateway cannot be reached,
\* refuses the request, ...)
CreateRaises ==
    /\ pc = "create"
    /\ UNCHANGED <<endpoint, posts, user_input>>
    /\ deviations < MaxDeviations
    /\ deviations' = deviations + 1
    /\ model_calls' = model_calls + 1
    /\ Raises("APIError", "create")
    /\ UNCHANGED <<iteration, messages, response_message, tool_index, function_args,
                   function_to_call, function_response, returned, in_progress>>

\* messages.append(response_message.model_dump())
AppendResponse ==
    /\ pc = "append_response"
    /\ UNCHANGED <<endpoint, posts, user_input>>
    /\ messages' = AppendMessage(messages, model_dump(response_message))
    /\ pc' = "if"
    /\ UNCHANGED <<iteration, response_message, tool_index, function_args,
                   function_to_call, function_response, returned, exception,
                   raised_at, in_progress, model_calls, deviations>>

\* if response_message.tool_calls: enter the for loop
IfToolCalls ==
    /\ pc = "if"
    /\ UNCHANGED <<endpoint, posts, user_input>>
    /\ HasToolCalls(response_message)
    /\ tool_index' = 1
    /\ pc' = "for"
    /\ UNCHANGED <<iteration, messages, response_message, function_args,
                   function_to_call, function_response, returned, exception,
                   raised_at, in_progress, model_calls, deviations>>

\* else: return response_message.content
ElseReturn ==
    /\ pc = "if"
    /\ UNCHANGED <<endpoint, posts, user_input>>
    /\ ~HasToolCalls(response_message)
    /\ returned' = response_message.content
    /\ pc' = "done"
    /\ UNCHANGED <<iteration, messages, response_message, tool_index, function_args,
                   function_to_call, function_response, exception, raised_at,
                   in_progress, model_calls, deviations>>

\* for tool_call in response_message.tool_calls: the next tool_call
ForNext ==
    /\ pc = "for"
    /\ UNCHANGED <<endpoint, posts, user_input>>
    /\ tool_index <= Len(response_message.tool_calls)
    /\ pc' = "loads"
    /\ UNCHANGED <<iteration, messages, response_message, tool_index, function_args,
                   function_to_call, function_response, returned, exception,
                   raised_at, in_progress, model_calls, deviations>>

\* the for loop is exhausted: back to the while test
ForEnd ==
    /\ pc = "for"
    /\ UNCHANGED <<endpoint, posts, user_input>>
    /\ tool_index > Len(response_message.tool_calls)
    /\ pc' = "while"
    /\ UNCHANGED <<iteration, messages, response_message, tool_index, function_args,
                   function_to_call, function_response, returned, exception,
                   raised_at, in_progress, model_calls, deviations>>

\* function_args = json.loads(tool_call.function.arguments)
Loads ==
    /\ pc = "loads"
    /\ UNCHANGED <<endpoint, posts, user_input>>
    /\ LET loaded == json_loads(tool_call.arguments)
       IN  IF loaded.raised
           THEN /\ Raises(loaded.exc, "loads")
                /\ UNCHANGED function_args
           ELSE /\ function_args' = loaded.value
                /\ pc' = "lookup"
                /\ UNCHANGED <<exception, raised_at>>
    /\ UNCHANGED <<iteration, messages, response_message, tool_index,
                   function_to_call, function_response, returned, in_progress,
                   model_calls, deviations>>

\* function_to_call = self.available_functions[function_name]
Lookup ==
    /\ pc = "lookup"
    /\ UNCHANGED <<endpoint, posts, user_input>>
    /\ IF tool_call.name \in available_functions
       THEN /\ function_to_call' = tool_call.name
            /\ pc' = "call"
            /\ UNCHANGED <<exception, raised_at>>
       ELSE /\ Raises("KeyError", "lookup")
            /\ UNCHANGED function_to_call
    /\ UNCHANGED <<iteration, messages, response_message, tool_index, function_args,
                   function_response, returned, in_progress, model_calls, deviations>>

\* Mutant of Call: every invocation of the message is submitted at once
CallAllAtOnce ==
    /\ pc = "call"
    /\ UNCHANGED <<endpoint, posts, user_input>>
    /\ in_progress' = in_progress \cup (tool_index..Len(response_message.tool_calls))
    /\ pc' = "in_call"
    /\ UNCHANGED <<iteration, messages, response_message, tool_index, function_args,
                   function_to_call, function_response, returned, exception,
                   raised_at, model_calls, deviations>>

\* function_response = function_to_call(...): the call starts
Call ==
    /\ pc = "call"
    /\ UNCHANGED <<endpoint, posts, user_input>>
    /\ in_progress' = in_progress \cup {tool_index}
    /\ pc' = "in_call"
    /\ UNCHANGED <<iteration, messages, response_message, tool_index, function_args,
                   function_to_call, function_response, returned, exception,
                   raised_at, model_calls, deviations>>

\* the call ends: Python binds the arguments, the tool sends its requests
\* and returns function_response, or the call raises
CallEnds ==
    /\ pc = "in_call"
    /\ in_progress' = in_progress \ {tool_index}
    /\ \E n \in 0..(MaxDeviations - deviations) :
         \E ups \in UpstreamLists(function_to_call, n) :
            LET outcome == CallFunction(function_to_call, function_args, ups)
            IN  /\ deviations' = deviations + n
                /\ endpoint' = ups
                /\ posts' = posts + RequestsSent(function_to_call, function_args, ups)
                /\ IF outcome.raised
                   THEN /\ Raises(outcome.exc, "call")
                        /\ UNCHANGED function_response
                   ELSE /\ function_response' = outcome.value
                        /\ pc' = "append_tool"
                        /\ UNCHANGED <<exception, raised_at>>
    /\ UNCHANGED <<iteration, messages, response_message, tool_index, function_args,
                   function_to_call, returned, model_calls, user_input>>

\* Mutant of AppendToolMessage: the result of the call is dropped, the for
\* loop goes on without a tool message
AppendToolMessageDropped ==
    /\ pc = "append_tool"
    /\ tool_index' = tool_index + 1
    /\ pc' = "for"
    /\ UNCHANGED <<iteration, messages, response_message, function_args,
                   function_to_call, function_response, returned, exception,
                   raised_at, in_progress, model_calls, deviations, endpoint, posts,
                   user_input>>

\* messages.append({"role": "tool", "tool_call_id": tool_call.id, "content": ...})
AppendToolMessage ==
    /\ pc = "append_tool"
    /\ UNCHANGED <<endpoint, posts, user_input>>
    /\ messages' = AppendMessage(messages, ToolMessage(tool_call, function_response))
    /\ tool_index' = tool_index + 1
    /\ pc' = "for"
    /\ UNCHANGED <<iteration, response_message, function_args, function_to_call,
                   function_response, returned, exception, raised_at, in_progress,
                   model_calls, deviations>>

Next ==
    \/ WhileEnter
    \/ WhileExit
    \/ CreateReturns
    \/ CreateRaises
    \/ AppendResponse
    \/ IfToolCalls
    \/ ElseReturn
    \/ ForNext
    \/ ForEnd
    \/ Loads
    \/ Lookup
    \/ Call
    \/ CallEnds
    \/ AppendToolMessage

Spec == Init /\ [][Next]_vars

----------------------------------------------------------------------------
(* Properties of DexLiquidityAgent.run                                     *)

\* The position of the last assistant message of the conversation, or 0
LastAssistantIndex ==
    LET S == {i \in 1..Len(messages) : messages[i].role = "assistant"}
    IN  IF S = {} THEN 0 ELSE CHOOSE i \in S : \A j \in S : j <= i

\* The statements of the body of the for loop
ToolStatements == {"loads", "lookup", "call", "in_call", "append_tool"}

\* The exception left run from the body of the for loop
RaisedInToolLoop == pc = "raised" /\ raised_at \in {"loads", "lookup", "call"}

\* C1: one run makes at most max_iterations calls of the model gateway: the
\* iteration counter never exceeds max_iterations, every model call is
\* preceded by its own increment of the counter, and no call is pending or
\* made once max_iterations calls have been made.
C1_AtMostMaxIterationsModelCalls ==
    /\ iteration <= max_iterations
    /\ model_calls <= iteration
    /\ pc = "create" => model_calls = iteration - 1

\* C1 witness: the model asked for a tool in every response and the run
\* stopped after max_iterations model calls.
C1_Witness ==
    /\ pc = "aborted"
    /\ model_calls = max_iterations
    /\ iteration = max_iterations

\* C2: once an iteration whose assistant message carries k >= 1 requests is
\* over (the loop is back at the while test or at the next model call, or run
\* has ended), exactly k tool messages follow that assistant message and the
\* i-th of them carries the id of the i-th request.
C2_ToolMessagesPairRequests ==
    (pc \in {"while", "create", "aborted", "raised"} /\ LastAssistantIndex > 0) =>
        LET a == LastAssistantIndex
            requests == messages[a].tool_calls
        IN  /\ Len(messages) - a = Len(requests)
            /\ \A i \in 1..(Len(messages) - a) :
                 /\ messages[a + i].role = "tool"
                 /\ i <= Len(requests)
                 /\ messages[a + i].tool_call_id = requests[i].id

\* C3: a requested tool name that is absent from the registry gives an error
\* result that is appended as a tool message; no exception leaves the loop.
C3_UnknownToolGivesErrorResult ==
    (/\ pc \in {"call", "in_call", "append_tool", "raised"}
     /\ raised_at \notin {"create", "loads"}
     /\ tool_call.name \notin available_functions) =>
        /\ pc = "append_tool"
        /\ IsError(function_response)

\* The argument text of a tool call fails parsing or validation against the
\* declared parameters of its tool
InvalidArguments(call) ==
    \/ call.arguments.syntax # "object"
    \/ ~(Required(call.name) \subseteq DOMAIN call.arguments.obj)
    \/ ~(DOMAIN call.arguments.obj \subseteq Parameters(call.name))
    \/ \E k \in DOMAIN call.arguments.obj : call.arguments.obj[k].type # "str"

\* C4: an argument payload that fails parsing or validation is recovered as
\* an error result appended as a tool message and never ends the loop.
C4_InvalidArgumentsGiveErrorResult ==
    (/\ pc \in {"append_tool", "raised"}
     /\ raised_at # "create"
     /\ tool_call.name \in available_functions
     /\ InvalidArguments(tool_call)) =>
        /\ pc = "append_tool"
        /\ IsError(function_response)

\* C5: run never ends by an exception escaping from a tool invocation: an
\* exception raised by the body of the tool (any exception other than the
\* TypeError of binding the arguments) becomes an error result.
C5_ToolExceptionsAreCaught ==
    ~(/\ pc = "raised"
      /\ raised_at = "call"
      /\ exception # "TypeError")

\* Every assistant message of the conversation carries a tool request
EveryResponseRequestedTools ==
    \A i \in 1..Len(messages) :
        messages[i].role = "assistant" => Len(messages[i].tool_calls) > 0

\* C6: when max_iterations model calls have been made and each returned a
\* tool request, run stops aborted with the fixed message; and when the
\* model calls and the tool calls return, run ends done or aborted.
C6_AbortedAtTheBound ==
    /\ (/\ model_calls = max_iterations
        /\ EveryResponseRequestedTools
        /\ exception # "APIError"
        /\ ~ENABLED Next) =>
            (pc = "aborted" /\ returned = MaxIterationsMessage)
    /\ ~(pc = "raised" /\ raised_at \in {"loads", "lookup"})

\* C7: an assistant message without tool requests ends the run in the same
\* iteration: run returns the message's text, the message is the last one of
\* the conversation (no tool message follows), no tool is being executed and
\* no further step, so no further model call, is taken.
C7_NoToolCallsMeansDone ==
    (/\ model_calls > 0
     /\ exception # "APIError"
     /\ Len(response_message.tool_calls) = 0) =>
        /\ pc \in {"append_response", "if", "done"}
        /\ model_calls = iteration
        /\ pc \in {"if", "done"} =>
             messages[Len(messages)] =
                [role |-> "assistant", content |-> response_message.content,
                 tool_calls |-> <<>>]
        /\ pc = "done" =>
             /\ returned = response_message.content
             /\ in_progress = {}
             /\ ~ENABLED Next

\* C7 witness: the second response carries text and no tool request, and run
\* has returned.
C7_Witness ==
    /\ pc = "done"
    /\ model_calls = 2
    /\ returned = "answer A"

\* C8: while the tool invocations of an assistant message are parsed and
\* executed, and when one of them fails, the conversation already holds
\* that message with its requested invocations, followed only by the tool
\* messages of the invocations already completed.
C8_ResponseAppendedBeforeTools ==
    (pc \in ToolStatements \/ RaisedInToolLoop) =>
        LET a == Len(messages) - (tool_index - 1)
        IN  /\ a > 2
            /\ a = LastAssistantIndex
            /\ messages[a] =
                 [role |-> "assistant", content |-> response_message.content,
                  tool_calls |-> response_message.tool_calls]
            /\ Len(messages[a].tool_calls) > 0

\* C8 witness: the first invocation of a message failed, and the message is
\* the last one of the conversation.
C8_Witness ==
    /\ RaisedInToolLoop
    /\ tool_index = 1
    /\ messages[Len(messages)].role = "assistant"

\* C9: every step of run leaves the conversation as it was or appends to
\* it: the messages before the step are a prefix of the messages after it,
\* and messages 1 and 2 are the system and the user message.
C9_ConversationAppendOnly ==
    [][/\ Len(messages') >= Len(messages)
       /\ SubSeq(messages', 1, Len(messages)) = messages
       /\ messages'[1] = SystemMessage
       /\ messages'[2].role = "user"]_vars

\* C9 witness: a conversation that grew by an assistant message and tool
\* messages over several iterations.
C9_Witness ==
    /\ Len(messages) >= 6
    /\ messages[1] = SystemMessage
    /\ messages[2].role = "user"
    /\ messages[Len(messages)].role = "tool"

\* C10: the invocations of one assistant message run one after another in
\* the order requested: at most one is in progress, it is the one the for
\* loop is at, and when invocation i is parsed, looked up or run, exactly the
\* tool messages of the invocations 1..i-1 follow the assistant message, in
\* that order.
C10_ToolCallsAreSequential ==
    /\ Cardinality(in_progress) <= 1
    /\ in_progress # {} => (pc = "in_call" /\ in_progress = {tool_index})
    /\ pc \in ToolStatements =>
         LET a == LastAssistantIndex
         IN  /\ tool_index \in 1..Len(response_message.tool_calls)
             /\ Len(messages) = a + tool_index - 1
             /\ \A j \in 1..(tool_index - 1) :
                  /\ messages[a + j].role = "tool"
                  /\ messages[a + j].tool_call_id = response_message.tool_calls[j].id

\* C10 witness: the second invocation of a message is in progress after the
\* tool message of the first was appended.
C10_Witness ==
    /\ pc = "in_call"
    /\ tool_index = 2
    /\ in_progress = {2}
    /\ messages[Len(messages)].role = "tool"

----------------------------------------------------------------------------
(* Domain errors, the two-call scenario and the end at the bound           *)

\* The answer of the endpoint makes a tool report an error: the request
\* failed, the body is no JSON or carries "errors", or the pool is absent
EndpointFails(up) == up.kind # "data" \/ ~up.pool.found

\* The period get_volume is called with
PeriodOf(function_args_obj) ==
    IF "period" \in DOMAIN function_args_obj THEN function_args_obj.period ELSE Str("24h")

\* The tool call the for loop is at has valid arguments and its tool reports
\* a domain error, given the answers of the endpoint
ReportsDomainError ==
    /\ tool_call.name \in available_functions
    /\ ~InvalidArguments(tool_call)
    /\ CASE tool_call.name = "get_tvl" -> EndpointFails(endpoint[1])
         [] tool_call.name = "get_volume" ->
              \/ PeriodDays(PeriodOf(tool_call.arguments.obj)) = 0
              \/ EndpointFails(endpoint[1])
         [] tool_call.name = "get_apy" ->
              \/ EndpointFails(endpoint[1])
              \/ (endpoint[1].pool.totalValueLockedUSD > 0 /\ EndpointFails(endpoint[2]))

\* The texts of the domain errors
DomainErrors ==
    {"Pool not found", "Failed to fetch TVL", "Failed to fetch volume",
     "GraphQL errors", "Invalid period"}

\* C12: a domain error of a tool (pool not found, failed request, GraphQL
\* errors, invalid period) is returned as a result with an error field and
\* never raised; every result, an error result too, is the JSON content of
\* the tool message of its invocation; and after that message the loop goes
\* on: the run is not done, and when the for loop is over the next
\* iteration, if the bound leaves one, calls the model.
C12_DomainErrorsAreResults ==
    /\ (/\ pc \in {"append_tool", "raised"}
        /\ raised_at \notin {"create", "loads", "lookup"}
        /\ ReportsDomainError) =>
            /\ pc = "append_tool"
            /\ IsError(function_response)
            /\ function_response.error \in DomainErrors
    /\ (pc = "for" /\ tool_index > 1) =>
            messages[Len(messages)] =
                [role |-> "tool",
                 tool_call_id |-> response_message.tool_calls[tool_index - 1].id,
                 content |-> [json |-> function_response]]
    /\ (/\ messages[Len(messages)].role = "tool"
        /\ IsError(messages[Len(messages)].content.json)) =>
            /\ pc # "done"
            /\ pc = "aborted" => iteration = max_iterations
            /\ pc = "raised" => raised_at = "create" \/ tool_index > 1
            /\ (pc = "while" /\ iteration < max_iterations) => ENABLED WhileEnter

\* C12 witness: the next model call is about to be made with the error
\* result of a tool as the last message of the conversation.
C12_Witness ==
    /\ pc = "create"
    /\ messages[Len(messages)].role = "tool"
    /\ IsError(messages[Len(messages)].content.json)
    /\ messages[Len(messages)].content.json.error \in DomainErrors

\* The first response of the model requested get_tvl with a pool address,
\* the second carried no tool call
TvlThenAnswer ==
    /\ model_calls = 2
    /\ exception # "APIError"
    /\ Len(messages) >= 3
    /\ messages[3].role = "assistant"
    /\ Len(messages[3].tool_calls) = 1
    /\ messages[3].tool_calls[1].name = "get_tvl"
    /\ messages[3].tool_calls[1].arguments = Object([pool_address |-> Str(PoolA)])
    /\ Len(response_message.tool_calls) = 0

\* C17: in that scenario the run is done on iteration 2 after two model
\* calls, one tool execution and one request; the conversation is system,
\* user, assistant with the request, tool with the result of get_tvl (the
\* TVL payload when the endpoint answered with the pool), assistant with the
\* final text; and run returns the text of the second response.
C17_TvlScenarioDoneOnIteration2 ==
    TvlThenAnswer =>
        /\ pc \in {"append_response", "if", "done"}
        /\ iteration = 2
        /\ posts = 1
        /\ messages[1] = SystemMessage
        /\ messages[2].role = "user"
        /\ messages[4].role = "tool"
        /\ messages[4].tool_call_id = messages[3].tool_calls[1].id
        /\ IF EndpointFails(endpoint[1])
           THEN IsError(messages[4].content.json)
           ELSE /\ ~IsError(messages[4].content.json)
                /\ messages[4].content.json.pool_address = PoolA
                /\ messages[4].content.json.tvl_usd = endpoint[1].pool.totalValueLockedUSD
        /\ Len(messages) = IF pc = "append_response" THEN 4 ELSE 5
        /\ pc # "append_response" =>
             messages[5] = [role |-> "assistant", content |-> response_message.content,
                            tool_calls |-> <<>>]
        /\ pc = "done" => returned = response_message.content

\* C17 witness: the run of the scenario has returned the final text, with the
\* TVL payload in the conversation.
C17_Witness ==
    /\ TvlThenAnswer
    /\ pc = "done"
    /\ Len(messages) = 5
    /\ ~IsError(messages[4].content.json)
    /\ messages[4].content.json.tvl_usd = 1000
    /\ returned = "answer B"

\* C19: a response without tool requests on the max_iterations-th model call
\* ends the run done with the text of that response, and not with the
\* maximum-iterations message; that message is returned only when
\* max_iterations model calls were made and the last response requested
\* tools.
C19_AnswerOnLastIterationIsReturned ==
    /\ (pc = "done" /\ model_calls = max_iterations) =>
            /\ Len(response_message.tool_calls) = 0
            /\ returned = response_message.content
            /\ returned # MaxIterationsMessage
    /\ (/\ model_calls = max_iterations
        /\ exception # "APIError"
        /\ Len(response_message.tool_calls) = 0) => pc # "aborted"
    /\ returned = MaxIterationsMessage =>
            /\ pc = "aborted"
            /\ model_calls = max_iterations
            /\ Len(response_message.tool_calls) > 0
    /\ pc = "aborted" => returned = MaxIterationsMessage

\* C19 witness: the max_iterations-th response carried text and no tool
\* request, and run returned that text.
C19_Witness ==
    /\ pc = "done"
    /\ model_calls = max_iterations
    /\ iteration = max_iterations
    /\ returned = "answer A"

\* The number of assistant messages of the conversation
AssistantMessages ==
    Cardinality({i \in 1..Len(messages) : messages[i].role = "assistant"})

\* C20: when run ends aborted, the conversation holds exactly max_iterations
\* assistant messages, the last of them is the max_iterations-th response,
\* and it is followed by exactly the tool messages of its requests, in
\* order; no invocation is in progress and no model call follows them.
C20_AbortEndsWithUnsubmittedToolMessages ==
    pc = "aborted" =>
        LET a == LastAssistantIndex
            k == Len(response_message.tool_calls)
        IN  /\ AssistantMessages = max_iterations
            /\ model_calls = max_iterations
            /\ a > 0
            /\ messages[a] =
                 [role |-> "assistant", content |-> response_message.content,
                  tool_calls |-> response_message.tool_calls]
            /\ k >= 1
            /\ Len(messages) = a + k
            /\ \A i \in 1..k :
                 /\ a + i <= Len(messages)
                 /\ messages[a + i].role = "tool"
                 /\ messages[a + i].tool_call_id = response_message.tool_calls[i].id
            /\ messages[Len(messages)].role = "tool"
            /\ in_progress = {}
            /\ ~ENABLED Next

\* C20 witness: the run is aborted and the last response requested two
\* invocations, whose two tool messages end the conversation.
C20_Witness ==
    /\ pc = "aborted"
    /\ Len(response_message.tool_calls) = 2
    /\ messages[Len(messages)].role = "tool"
    /\ messages[Len(messages) - 1].role = "tool"

----------------------------------------------------------------------------
(* main: the interactive loop around agent.run                             *)

\* A line typed at the prompt: text without outer whitespace, with or without
\* whitespace around it
Line(padded, text) == [padded |-> padded, text |-> text]

\* The texts typed at the prompt
Texts == UserInputs \cup {"", "exit", "QUIT", "bye"}

InputLines == {Line(padded, text) : padded \in BOOLEAN, text \in Texts}

\* input(...).strip()
strip(line) == line.text

\* user_input.lower()
lower(text) ==
    CASE text = "QUIT" -> "quit"
      [] text = "What's the TVL for pool 0xA?" -> "what's the tvl for pool 0xa?"
      [] OTHER -> text

\* if user_input.lower() in ['exit', 'quit', 'bye']
ExitWords == {"exit", "quit", "bye"}

\* Mutant of FreshMessages: the list of the previous query is kept and the
\* new user message is appended to it
MessagesKept(old, text) ==
    IF old = <<>> THEN <<SystemMessage, UserMessage(text)>>
    ELSE Append(old, UserMessage(text))

\* messages = [{"role": "system", ...}, {"role": "user", "content": user_input}]
FreshMessages(old, text) == <<SystemMessage, UserMessage(text)>>

\* main before the first prompt
InitMain ==
    /\ pc = "input"
    /\ user_input = None
    /\ messages = <<>>
    /\ iteration = 0
    /\ response_message = NoResponse
    /\ tool_index = 0
    /\ function_args = NoArgs
    /\ function_to_call = None
    /\ function_response = NoResult
    /\ returned = NotReturned
    /\ exception = None
    /\ raised_at = None
    /\ in_progress = {}
    /\ model_calls = 0
    /\ deviations = 0
    /\ endpoint = NominalEndpoint
    /\ posts = 0

\* One pass of the body of while True up to the call of agent.run: the line
\* is read and stripped; an exit word breaks the loop, an empty line
\* continues it, any other text starts agent.run on a new list of messages
MainInput ==
    /\ pc = "input"
    /\ \E line \in InputLines :
         /\ user_input' = strip(line)
         /\ IF lower(strip(line)) \in ExitWords
            THEN /\ pc' = "exited"
                 /\ UNCHANGED <<iteration, messages, response_message, tool_index,
                                function_args, function_to_call, function_response,
                                returned, model_calls, endpoint, posts>>
            ELSE IF strip(line) = ""
            THEN /\ pc' = "input"
                 /\ UNCHANGED <<iteration, messages, response_message, tool_index,
                                function_args, function_to_call, function_response,
                                returned, model_calls, endpoint, posts>>
            ELSE /\ messages' = FreshMessages(messages, strip(line))
                 /\ iteration' = 0
                 /\ response_message' = NoResponse
                 /\ tool_index' = 0
                 /\ function_args' = NoArgs
                 /\ function_to_call' = None
                 /\ function_response' = NoResult
                 /\ returned' = NotReturned
                 /\ model_calls' = 0
                 /\ endpoint' = NominalEndpoint
                 /\ posts' = 0
                 /\ pc' = "while"
    /\ UNCHANGED <<exception, raised_at, in_progress, deviations>>

\* response = agent.run(messages) has returned: print(response), and the
\* loop is back at the prompt
MainPrint ==
    /\ pc \in {"done", "aborted"}
    /\ pc' = "input"
    /\ UNCHANGED <<iteration, messages, response_message, tool_index, function_args,
                   function_to_call, function_response, returned, exception,
                   raised_at, in_progress, model_calls, deviations, endpoint, posts,
                   user_input>>

\* An exception left agent.run: main has no handler, the exception leaves
\* main and the process ends with a traceback
MainUnhandled ==
    /\ pc = "raised"
    /\ pc' = "exited"
    /\ UNCHANGED <<iteration, messages, response_message, tool_index, function_args,
                   function_to_call, function_response, returned, exception,
                   raised_at, in_progress, model_calls, deviations, endpoint, posts,
                   user_input>>

NextMain ==
    \/ MainInput
    \/ MainPrint
    \/ MainUnhandled
    \/ Next

SpecMain == InitMain /\ [][NextMain]_vars

\* C11: the process ends only by an exit word: no failure of the run of a
\* query (an unknown tool name, invalid arguments, a failing model call)
\* ends it, and after every run main is back at the prompt.
C11_QueryFailureNeverExits ==
    /\ pc = "exited" => (exception = None /\ lower(user_input) \in ExitWords)
    /\ pc # "raised"

\* The run of the current query has made its model call of this iteration
\* and appended the response
ResponseAppended ==
    \/ pc \in {"if", "for", "loads", "lookup", "call", "in_call", "append_tool",
                "while", "done", "aborted"}
    \/ pc = "raised" /\ raised_at # "create"

\* C16: agent.run starts on exactly two messages, the system instruction and
\* the text of the current input, which is neither empty nor an exit word;
\* while it runs and when it has ended, the conversation begins with these
\* two, holds no other system or user message, and holds exactly one
\* assistant message per iteration of this run: nothing of an earlier run.
C16_EveryQueryStartsFresh ==
    /\ (pc = "while" /\ iteration = 0) =>
            messages = <<SystemMessage, UserMessage(user_input)>>
    /\ pc \notin {"input", "exited"} =>
            /\ user_input # ""
            /\ lower(user_input) \notin ExitWords
            /\ Len(messages) >= 2
            /\ messages[1] = SystemMessage
            /\ messages[2] = UserMessage(user_input)
            /\ \A i \in 3..Len(messages) : messages[i].role \in {"assistant", "tool"}
            /\ AssistantMessages = IF ResponseAppended /\ iteration > 0
                                   THEN iteration ELSE IF iteration > 0
                                   THEN iteration - 1 ELSE 0

\* C16 witness: a second query starts its run on two messages after the run
\* of an earlier query, in which the model answered with text, has ended.
C16_Witness ==
    /\ pc = "while"
    /\ iteration = 0
    /\ deviations = 1
    /\ Len(messages) = 2
    /\ messages[2].content = "What's the TVL for pool 0xA?"

----------------------------------------------------------------------------
(* The tools on their own: one call of a tool on given arguments and       *)
(* answers of the endpoint                                                 *)

\* Bound: the largest number of daily records in an answer of the endpoint
MaxRecords == 3

\* The n daily records with volumeUSD 100, 200, ... and feesUSD 1, 2, ...
DaySeries(n) == [i \in 1..n |-> DayData(100 * i, i)]

\* The values of totalValueLockedUSD
TvlValues == {-1, 0, 1, 1000}

\* The answers without a pool: failed request, no JSON, "errors", no pool
FailingUpstreams ==
    { Upstream("http_error", NoPool, <<>>),
      Upstream("bad_body", NoPool, <<>>),
      Upstream("graphql_errors", NoPool, <<>>),
      Upstream("data", NoPool, <<>>) }

\* The answers to the request of get_tvl
TvlUpstreams ==
    FailingUpstreams \cup {Upstream("data", PoolData(t), <<>>) : t \in TvlValues}

\* The answers to the request of get_volume
VolumeUpstreams ==
    FailingUpstreams
    \cup {Upstream("data", PoolData(1000), DaySeries(n)) : n \in 0..MaxRecords}

\* The values passed as pool_address and as period
PoolAddresses == {Str(PoolA), Num("42")}

Periods == {Str("24h"), Str("7d"), Str("30d"), Str("1y"), Str(""), Str("24H"), Num("7")}

\* function_args of a call of the tool
ToolArguments(name) ==
    {[mapping |-> TRUE, obj |-> [pool_address |-> a]] : a \in PoolAddresses}
    \cup
    (IF name = "get_volume"
     THEN {[mapping |-> TRUE, obj |-> [pool_address |-> a, period |-> p]] :
             a \in PoolAddresses, p \in Periods}
     ELSE {})

\* The answers of the endpoint to the requests of a call of the tool
ToolEndpoints(name) ==
    CASE name = "get_tvl" ->
           {[i \in 1..4 |-> IF i = 1 THEN up ELSE NominalUpstream] : up \in TvlUpstreams}
      [] name = "get_volume" ->
           {[i \in 1..4 |-> IF i = 1 THEN up ELSE NominalUpstream] : up \in VolumeUpstreams}
      [] name = "get_apy" ->
           {[i \in 1..4 |-> IF i = 1 THEN t ELSE v[i]] :
              t \in TvlUpstreams, v \in [2..4 -> VolumeUpstreams]}

\* A tool is about to be called
InitTools ==
    /\ pc = "tool_call"
    /\ function_to_call \in available_functions
    /\ function_args \in ToolArguments(function_to_call)
    /\ endpoint \in ToolEndpoints(function_to_call)
    /\ posts = 0
    /\ function_response = NoResult
    /\ exception = None
    /\ raised_at = None
    /\ iteration = 0
    /\ messages = <<>>
    /\ response_message = NoResponse
    /\ tool_index = 0
    /\ returned = NotReturned
    /\ in_progress = {}
    /\ model_calls = 0
    /\ deviations = 0
    /\ user_input = None

\* function_to_call is called with function_args: it sends its requests
\* and returns its result, or raises
ToolCallEnds ==
    /\ pc = "tool_call"
    /\ LET outcome == CallFunction(function_to_call, function_args, endpoint)
       IN  /\ posts' = posts + RequestsSent(function_to_call, function_args, endpoint)
           /\ IF outcome.raised
              THEN /\ pc' = "tool_raised"
                   /\ exception' = outcome.exc
                   /\ raised_at' = "call"
                   /\ UNCHANGED function_response
              ELSE /\ pc' = "tool_returned"
                   /\ function_response' = outcome.value
                   /\ UNCHANGED <<exception, raised_at>>
    /\ UNCHANGED <<iteration, messages, response_message, tool_index, function_args,
                   function_to_call, returned, in_progress, model_calls, deviations,
                   endpoint, user_input>>

NextTools == ToolCallEnds

SpecTools == InitTools /\ [][NextTools]_vars

\* The percentage fields of a result of get_apy
ApyFields == {"apy_24h", "apy_7d", "apy_30d"}

\* C13: when get_apy has returned and one of the sub-calls it made (TVL,
\* volume of 24h, of 7d or of 30d) got a failing answer, the result is an
\* error result without any APY percentage field.
C13_ApyShortCircuitsOnEverySubCall ==
    (/\ pc = "tool_returned"
     /\ function_to_call = "get_apy"
     /\ \E i \in 1..posts : EndpointFails(endpoint[i])) =>
        /\ IsError(function_response)
        /\ DOMAIN function_response \cap ApyFields = {}

\* C14: when the TVL sub-call of get_apy reports a tvl_usd of zero or less,
\* get_apy returns an error result: it does not raise (no division by
\* zero), and the request of get_tvl is the only request made, so no volume
\* sub-call was made.
C14_ZeroTvlGivesErrorWithoutDivision ==
    (/\ pc \in {"tool_returned", "tool_raised"}
     /\ function_to_call = "get_apy"
     /\ function_args.obj.pool_address.type = "str"
     /\ ~EndpointFails(endpoint[1])
     /\ endpoint[1].pool.totalValueLockedUSD <= 0) =>
        /\ pc = "tool_returned"
        /\ exception = None
        /\ function_response = [error |-> "TVL is zero or negative"]
        /\ posts = 1

\* C14 witness: get_apy has returned for a pool with a TVL of zero whose
\* volume requests would have been answered with records.
C14_Witness ==
    /\ pc = "tool_returned"
    /\ function_to_call = "get_apy"
    /\ endpoint[1].kind = "data"
    /\ endpoint[1].pool.found
    /\ endpoint[1].pool.totalValueLockedUSD = 0
    /\ endpoint[2] = Upstream("data", PoolData(1000), DaySeries(MaxRecords))
    /\ IsError(function_response)

\* The period is one of '24h', '7d' and '30d'
KnownPeriod(period) == period.type = "str" /\ period.v \in {"24h", "7d", "30d"}

\* C15: for every period other than '24h', '7d' and '30d' get_volume returns
\* the invalid-period error result and sends no request, whatever the pool
\* address and the endpoint are.
C15_InvalidPeriodSendsNoRequest ==
    (/\ pc \in {"tool_returned", "tool_raised"}
     /\ function_to_call = "get_volume"
     /\ ~KnownPeriod(PeriodOf(function_args.obj))) =>
        /\ pc = "tool_returned"
        /\ function_response = [error |-> "Invalid period"]
        /\ posts = 0

\* C15 witness: get_volume has returned for the period '1y' and an endpoint
\* that would have answered with records.
C15_Witness ==
    /\ pc = "tool_returned"
    /\ function_to_call = "get_volume"
    /\ PeriodOf(function_args.obj) = Str("1y")
    /\ function_args.obj.pool_address = Str(PoolA)
    /\ endpoint[1] = Upstream("data", PoolData(1000), DaySeries(MaxRecords))
    /\ IsError(function_response)
    /\ posts = 0

\* get_volume has returned a result for a found pool
VolumeReturned ==
    /\ pc = "tool_returned"
    /\ function_to_call = "get_volume"
    /\ ~IsError(function_response)

\* The three daily records with volumeUSD [100, 200, 300] and feesUSD [1, 2, 3]
ThreeRecords == <<DayData(100, 1), DayData(200, 2), DayData(300, 3)>>

\* The number of days of a period
DaysOfPeriod(v) == CASE v = "24h" -> 1 [] v = "7d" -> 7 [] v = "30d" -> 30

\* The fraction f is the number n
FracIs(f, n) == f.num = n * f.den

====
